---- MODULE Spec2Model ----
(***************************************************************************)
(* NL2SQL playground: the schema registry (app/db/dynamic_models.py and    *)
(* the routers that mutate it), the semantic answer cache                  *)
(* (app/utils/semantic_cache.py) and the query handler with its            *)
(* extraction and validation pipeline (app/routers/query.py).              *)
(*                                                                         *)
(* Text is a sequence of one-character strings, so that strip, upper,      *)
(* startswith, split and the regular expressions of the source are         *)
(* computed character by character.                                        *)
(***************************************************************************)
EXTENDS Integers, Sequences, FiniteSets, TLC

VARIABLES
    schema_cache,   \* SchemaCache.cache: ordered dict, a sequence of [name, columns, created_at]
    cache_file,     \* data/schema_cache.json: [kind |-> "absent"] or [kind |-> "text", text |-> tokens]
    clock,          \* datetime.utcnow(), as a counter
    loop_pc,        \* position of the handler running on the event loop
    loop_req,       \* the request that handler serves
    loop_resp,      \* the last response of an event-loop handler
    save_phase,     \* which save_cache call is running: "update" or "delete"
    pre_cache,      \* schema_cache when the running event-loop handler began
    pre_file,       \* cache_file when the running event-loop handler began
    sem_index,      \* SemanticNL2SQLCache.index: the vectors, in insertion order
    sem_cache,      \* SemanticNL2SQLCache.cache: the entries, in insertion order
    sem_lock,       \* SemanticNL2SQLCache.lock: its holder, or NoThread
    embedding,      \* the embedding model: text -> vector, fixed for a process
    q_pc,           \* position of each query_table call (one per worker thread)
    q_req,          \* its request
    q_loc,          \* its local variables
    q_resp,         \* the last response of each worker thread
    pipe            \* one model response on its way through lines 145-154 of query_table

registry_vars == <<schema_cache, cache_file, clock, loop_pc, loop_req, loop_resp,
                   save_phase, pre_cache, pre_file>>
cache_vars == <<sem_index, sem_cache, sem_lock, embedding>>
query_vars == <<q_pc, q_req, q_loc, q_resp>>
pipe_vars == <<pipe>>
vars == <<schema_cache, cache_file, clock, loop_pc, loop_req, loop_resp,
          save_phase, pre_cache, pre_file, sem_index, sem_cache, sem_lock,
          embedding, q_pc, q_req, q_loc, q_resp, pipe>>

(***************************************************************************)
(* Bounds of the model.                                                    *)
(***************************************************************************)
\* datetime.utcnow() is read at most this many times in a run
MaxClock == 3
\* a model response is the concatenation of at most this many fragments
MaxFragments == 3
\* the answer cache holds at most this many entries in a run
MaxEntries == 2

(***************************************************************************)
(* Text.                                                                   *)
(***************************************************************************)
UpperAlpha == <<"A","B","C","D","E","F","G","H","I","J","K","L","M",
                "N","O","P","Q","R","S","T","U","V","W","X","Y","Z">>
LowerAlpha == <<"a","b","c","d","e","f","g","h","i","j","k","l","m",
                "n","o","p","q","r","s","t","u","v","w","x","y","z">>

\* str.isspace for the characters of the model
IsSpace(c) == c \in {" ", "\n", "\t", "\r"}

LowerChar(c) ==
    IF \E i \in 1..26 : UpperAlpha[i] = c
    THEN LowerAlpha[CHOOSE i \in 1..26 : UpperAlpha[i] = c]
    ELSE c

UpperChar(c) ==
    IF \E i \in 1..26 : LowerAlpha[i] = c
    THEN UpperAlpha[CHOOSE i \in 1..26 : LowerAlpha[i] = c]
    ELSE c

\* str.lower
Lower(s) == [i \in 1..Len(s) |-> LowerChar(s[i])]

\* str.upper
Upper(s) == [i \in 1..Len(s) |-> UpperChar(s[i])]

\* s[i:] with a 1-based i
From(s, i) == SubSeq(s, i, Len(s))

\* whether sub occurs in s at position i
MatchAt(s, sub, i) ==
    /\ i >= 1
    /\ i + Len(sub) - 1 <= Len(s)
    /\ \A j \in 1..Len(sub) : s[i + j - 1] = sub[j]

\* str.startswith
StartsWith(s, p) == MatchAt(s, p, 1)

\* str.endswith
EndsWith(s, p) == Len(p) <= Len(s) /\ MatchAt(s, p, Len(s) - Len(p) + 1)

\* sub in s
Contains(s, sub) == \E i \in 1..(Len(s) + 1) : MatchAt(s, sub, i)

\* str.find, 1-based; 0 when absent
Find(s, sub) ==
    IF Contains(s, sub)
    THEN CHOOSE i \in 1..(Len(s) + 1) :
            /\ MatchAt(s, sub, i)
            /\ \A j \in 1..(i - 1) : ~MatchAt(s, sub, j)
    ELSE 0

\* str.lstrip
LStrip(s) ==
    IF \A i \in 1..Len(s) : IsSpace(s[i]) THEN <<>>
    ELSE From(s, CHOOSE i \in 1..Len(s) :
                    /\ ~IsSpace(s[i])
                    /\ \A j \in 1..(i - 1) : IsSpace(s[j]))

\* str.rstrip
RStrip(s) ==
    IF \A i \in 1..Len(s) : IsSpace(s[i]) THEN <<>>
    ELSE SubSeq(s, 1, CHOOSE i \in 1..Len(s) :
                    /\ ~IsSpace(s[i])
                    /\ \A j \in (i + 1)..Len(s) : IsSpace(s[j]))

\* str.strip
Strip(s) == RStrip(LStrip(s))

(***************************************************************************)
(* Ordered dicts: a sequence of records with unique keys in field "name".  *)
(***************************************************************************)
DictKeys(d) == {d[i].name : i \in 1..Len(d)}

\* key in d
DictHas(d, k) == k \in DictKeys(d)

\* d.get(k): the record, or None
None == [none |-> TRUE]

DictGet(d, k) ==
    IF DictHas(d, k) THEN d[CHOOSE i \in 1..Len(d) : d[i].name = k] ELSE None

\* d[k] = v: an existing key keeps its place, a new one is appended
DictSet(d, rec) ==
    IF DictHas(d, rec.name)
    THEN [i \in 1..Len(d) |-> IF d[i].name = rec.name THEN rec ELSE d[i]]
    ELSE Append(d, rec)

\* del d[k]
DictDel(d, k) == SelectSeq(d, LAMBDA r : r.name # k)

\* d1 == d2 of two dicts: the same items, in any order
DictEq(d1, d2) == {d1[i] : i \in 1..Len(d1)} = {d2[i] : i \in 1..Len(d2)}

(***************************************************************************)
(* Schema registry: app/db/dynamic_models.py.                              *)
(***************************************************************************)
\* names a request may carry: "cs", "Cs" (the same table in another case), "u"
N_cs == <<"c", "s">>
N_Cs == <<"C", "s">>
N_u == <<"u">>
TableNames == {N_cs, N_Cs, N_u}

C_id == <<"i", "d">>
C_n == <<"n">>
C_c_id == <<"c", "_", "i", "d">>

\* column dicts a definition may parse to (ordered: column name -> type tag)
COLS_n == << [name |-> C_n, type |-> "text"] >>
COLS_id_n == << [name |-> C_id, type |-> "int"], [name |-> C_n, type |-> "text"] >>
COLS_id_cid == << [name |-> C_id, type |-> "int"], [name |-> C_c_id, type |-> "int"] >>
ColumnSets == {COLS_n, COLS_id_cid}

\* json.dump(self.cache, f): the text, as tokens "{", one member per table, "}"
Dump(d) ==
    <<[tok |-> "{"]>>
    \o [i \in 1..Len(d) |-> [tok |-> "member", name |-> d[i].name,
                               columns |-> d[i].columns, created_at |-> d[i].created_at]]
    \o <<[tok |-> "}"]>>

\* whether json.load accepts the text (anything else raises JSONDecodeError)
WellFormed(text) ==
    /\ Len(text) >= 2
    /\ text[1].tok = "{"
    /\ text[Len(text)].tok = "}"
    /\ \A i \in 2..(Len(text) - 1) : text[i].tok = "member"

\* the dict json.load builds from the members (a repeated key keeps the last value)
RECURSIVE LoadMembers(_, _)
LoadMembers(text, d) ==
    IF text = <<>> THEN d
    ELSE LoadMembers(Tail(text),
                     DictSet(d, [name |-> Head(text).name, columns |-> Head(text).columns,
                                 created_at |-> Head(text).created_at]))

\* a loader that keeps the members it can read from a malformed text
LoadCache_salvage(f) ==
    IF f.kind = "absent" THEN <<>>
    ELSE LoadMembers(SelectSeq(f.text, LAMBDA x : x.tok = "member"), <<>>)

\* SchemaCache._load_cache: {} when the file is absent or malformed
LoadCache(f) ==
    IF f.kind = "absent" THEN <<>>
    ELSE IF WellFormed(f.text) THEN LoadMembers(SubSeq(f.text, 2, Len(f.text) - 1), <<>>)
    ELSE <<>>

\* a membership test on the name as given, letter case kept
table_exists_as_given(name) == DictHas(schema_cache, name)

\* SchemaCache.table_exists
table_exists(name) == DictHas(schema_cache, Lower(name))

\* SchemaCache.get_table_schema
get_table_schema(name) == DictGet(schema_cache, Lower(name))

\* SchemaCache.update_table_schema, its assignment to self.cache
update_table_schema(d, name, columns, now) ==
    DictSet(d, [name |-> Lower(name), columns |-> columns, created_at |-> now])

\* the body of a schema response: the columns and creation time of the entry
SchemaBody(name) ==
    LET schema == get_table_schema(name)
    IN  [columns |-> schema.columns, created_at |-> schema.created_at]

NoRequest == [op |-> "none"]
NoResponse == [op |-> "none", status |-> 0]

Respond(op, name, status, storage, body) ==
    [op |-> op, name |-> name, status |-> status, storage_failure |-> storage, body |-> body]

\* no handler on the event loop: the handlers are coroutines that never await,
\* so the loop runs them one at a time
LoopIdle == loop_pc = "idle"

\* an event-loop handler ends with a response, which goes out to the client
LoopReturn(status, storage, body) ==
    /\ loop_resp' = Respond(loop_req.op, loop_req.name, status, storage, body)
    /\ loop_pc' = "done"
    /\ UNCHANGED loop_req

LoopBegin(op, name, columns) ==
    /\ LoopIdle
    /\ pre_cache' = schema_cache
    /\ pre_file' = cache_file
    /\ loop_req' = [op |-> op, name |-> name, columns |-> columns]

\* POST /api/create_table with a definition that parses to the given columns
\* (none: the definition does not parse and raises ValueError, a 400)
create_table(name, columns) ==
    /\ LoopBegin("create", name, columns)
    /\ IF table_exists(name)
       THEN /\ loop_resp' = Respond("create", name, 400, FALSE, "exists")
            /\ loop_pc' = "done"
       ELSE IF columns = <<>>
       THEN /\ loop_resp' = Respond("create", name, 400, FALSE, "invalid")
            /\ loop_pc' = "done"
       ELSE /\ clock < MaxClock
            /\ loop_pc' = "model"
            /\ UNCHANGED loop_resp
    /\ UNCHANGED <<schema_cache, cache_file, clock, save_phase>>
    /\ UNCHANGED <<cache_vars, query_vars, pipe_vars>>

\* DELETE /api/schema/{name}, up to the call of get_dynamic_model
delete_table(name) ==
    /\ LoopBegin("delete", name, <<>>)
    /\ IF ~table_exists(name)
       THEN /\ loop_resp' = Respond("delete", name, 404, FALSE, "not found")
            /\ loop_pc' = "done"
       ELSE /\ clock < MaxClock
            /\ loop_pc' = "model"
            /\ UNCHANGED loop_resp
    /\ UNCHANGED <<schema_cache, cache_file, clock, save_phase>>
    /\ UNCHANGED <<cache_vars, query_vars, pipe_vars>>

\* POST /api/insert_data, up to the call of get_dynamic_model
insert_data(name, csv_ok) ==
    /\ LoopBegin("insert", name, <<>>)
    /\ IF ~table_exists(name)
       THEN /\ loop_resp' = Respond("insert", name, 404, FALSE, "not found")
            /\ loop_pc' = "done"
       ELSE IF ~csv_ok
       THEN /\ loop_resp' = Respond("insert", name, 400, FALSE, "invalid")
            /\ loop_pc' = "done"
       ELSE /\ clock < MaxClock
            /\ loop_pc' = "model"
            /\ UNCHANGED loop_resp
    /\ UNCHANGED <<schema_cache, cache_file, clock, save_phase>>
    /\ UNCHANGED <<cache_vars, query_vars, pipe_vars>>

\* GET /api/schema/{name}
get_schema(name) ==
    /\ LoopBegin("get", name, <<>>)
    /\ loop_resp' = IF table_exists(name)
                    THEN Respond("get", name, 200, FALSE, SchemaBody(name))
                    ELSE Respond("get", name, 404, FALSE, "not found")
    /\ loop_pc' = "done"
    /\ UNCHANGED <<schema_cache, cache_file, clock, save_phase>>
    /\ UNCHANGED <<cache_vars, query_vars, pipe_vars>>

\* GET /api/schemas
list_schemas ==
    /\ LoopBegin("list", <<>>, <<>>)
    /\ loop_resp' = Respond("list", <<>>, 200, FALSE, schema_cache)
    /\ loop_pc' = "done"
    /\ UNCHANGED <<schema_cache, cache_file, clock, save_phase>>
    /\ UNCHANGED <<cache_vars, query_vars, pipe_vars>>

\* the response has gone out: the event loop takes the next request
loop_respond ==
    /\ loop_pc = "done"
    /\ loop_pc' = "idle"
    /\ loop_req' = NoRequest
    /\ loop_resp' = NoResponse
    /\ pre_cache' = <<>>
    /\ pre_file' = [kind |-> "absent"]
    /\ UNCHANGED <<schema_cache, cache_file, clock, save_phase>>
    /\ UNCHANGED <<cache_vars, query_vars, pipe_vars>>

\* create_dynamic_model: the engine creates the table (it may raise), then
\* update_table_schema assigns the entry, stamped with the current time.
\* create_table calls it with the parsed columns; get_dynamic_model (delete,
\* insert) with the columns of the stored schema.
create_dynamic_model ==
    /\ loop_pc = "model"
    /\ \E engine_ok \in BOOLEAN :
        IF engine_ok
        THEN /\ schema_cache' = update_table_schema(schema_cache, loop_req.name,
                    IF loop_req.op = "create" THEN loop_req.columns
                    ELSE get_table_schema(loop_req.name).columns, clock)
             /\ clock' = clock + 1
             /\ loop_pc' = "open"
             /\ save_phase' = "update"
             /\ UNCHANGED <<loop_req, loop_resp>>
        ELSE /\ LoopReturn(500, FALSE, "engine")
             /\ UNCHANGED <<schema_cache, clock, save_phase>>
    /\ UNCHANGED <<cache_file, pre_cache, pre_file>>
    /\ UNCHANGED <<cache_vars, query_vars, pipe_vars>>

\* save_cache, open(self.cache_file, 'w'): truncates the file, or raises and
\* leaves it as it was
save_cache_open ==
    /\ loop_pc = "open"
    /\ \E storage_ok \in BOOLEAN :
        IF storage_ok
        THEN /\ cache_file' = [kind |-> "text", text |-> <<>>]
             /\ loop_pc' = "write"
             /\ UNCHANGED <<loop_req, loop_resp>>
        ELSE /\ LoopReturn(500, TRUE, "storage")
             /\ UNCHANGED cache_file
    /\ UNCHANGED <<schema_cache, clock, save_phase, pre_cache, pre_file>>
    /\ UNCHANGED <<cache_vars, query_vars, pipe_vars>>

\* what the caller of save_cache does next: delete_table commits and answers
\* 200 (the commit may raise); create_table and insert_data go on with the rows
AfterSave ==
    IF save_phase = "delete"
    THEN \E commit_ok \in BOOLEAN :
            IF commit_ok THEN LoopReturn(200, FALSE, "deleted")
            ELSE LoopReturn(500, FALSE, "engine")
    ELSE /\ loop_pc' = "after_model"
         /\ UNCHANGED <<loop_req, loop_resp>>

\* save_cache, json.dump(self.cache, f): writes the whole text, or raises
\* after writing only a part of it
save_cache_write ==
    /\ loop_pc = "write"
    /\ \/ /\ cache_file' = [kind |-> "text", text |-> Dump(schema_cache)]
          /\ AfterSave
       \/ \E n \in 0..(Len(Dump(schema_cache)) - 1) :
            /\ cache_file' = [kind |-> "text", text |-> SubSeq(Dump(schema_cache), 1, n)]
            /\ LoopReturn(500, TRUE, "storage")
    /\ UNCHANGED <<schema_cache, clock, save_phase, pre_cache, pre_file>>
    /\ UNCHANGED <<cache_vars, query_vars, pipe_vars>>

\* after create_dynamic_model returned: create_table inserts the CSV rows and
\* answers with the stored schema; insert_data inserts its rows and commits;
\* delete_table drops the engine table, deletes the entry and saves again
after_dynamic_model ==
    /\ loop_pc = "after_model"
    /\ \E engine_ok \in BOOLEAN :
        IF ~engine_ok
        THEN /\ LoopReturn(500, FALSE, "engine")
             /\ UNCHANGED <<schema_cache, save_phase>>
        ELSE IF loop_req.op = "delete"
        THEN /\ schema_cache' = IF table_exists(loop_req.name)
                                THEN DictDel(schema_cache, Lower(loop_req.name))
                                ELSE schema_cache
             /\ IF table_exists(loop_req.name)
                THEN /\ loop_pc' = "open"
                     /\ save_phase' = "delete"
                     /\ UNCHANGED <<loop_req, loop_resp>>
                ELSE /\ LoopReturn(200, FALSE, "deleted")
                     /\ UNCHANGED save_phase
        ELSE /\ LoopReturn(200, FALSE,
                    IF loop_req.op = "create" THEN SchemaBody(loop_req.name) ELSE "inserted")
             /\ UNCHANGED <<schema_cache, save_phase>>
    /\ UNCHANGED <<cache_file, clock, pre_cache, pre_file>>
    /\ UNCHANGED <<cache_vars, query_vars, pipe_vars>>

(***************************************************************************)
(* Extraction and validation pipeline: app/routers/query.py, and the       *)
(* clean-up of the model's answer in app/llm/openrouter_client.py.         *)
(***************************************************************************)
S_SELECT == <<"S", "E", "L", "E", "C", "T">>
S_DROP == <<"D", "R", "O", "P">>
S_DELETE == <<"D", "E", "L", "E", "T", "E">>
S_UPDATE == <<"U", "P", "D", "A", "T", "E">>
S_ALTER == <<"A", "L", "T", "E", "R">>
S_TRUNCATE == <<"T", "R", "U", "N", "C", "A", "T", "E">>
S_CREATE == <<"C", "R", "E", "A", "T", "E">>
S_INSERT == <<"I", "N", "S", "E", "R", "T">>
\* the grave accent of a code fence, a character a TLA+ string cannot hold
TICK == "(grave)"
S_FENCE == <<TICK, TICK, TICK>>
S_FENCE_SQL == <<TICK, TICK, TICK, "s", "q", "l">>
S_SEMI == <<";">>
S_DASHES == <<"-", "-">>
S_BLANK_LINE == <<"\n", "\n">>
S_explanation == <<"e", "x", "p", "l", "a", "n", "a", "t", "i", "o", "n">>
S_Explanation_colon == <<"E", "x", "p", "l", "a", "n", "a", "t", "i", "o", "n", ":">>
S_sql == <<"s", "q", "l">>

BLOCKED_SQL_KEYWORDS ==
    <<S_DROP, S_DELETE, S_UPDATE, S_ALTER, S_TRUNCATE, S_CREATE, S_INSERT>>

\* a test that finds the keyword anywhere in the text, inside words too
KeywordHit_anywhere(sql_upper, keyword) == Contains(sql_upper, keyword)

\* f" {keyword} " in f" {sql_upper} "
KeywordHit(sql_upper, keyword) ==
    Contains(<<" ">> \o sql_upper \o <<" ">>, <<" ">> \o keyword \o <<" ">>)

\* validate_sql: the verdict; the source returns None or raises ValueError
validate_sql(sql) ==
    LET sql_upper == Upper(Strip(sql))
        hits == {k \in 1..Len(BLOCKED_SQL_KEYWORDS) :
                    KeywordHit(sql_upper, BLOCKED_SQL_KEYWORDS[k])}
    IN  IF ~StartsWith(sql_upper, S_SELECT)
        THEN [ok |-> FALSE, error |-> "only_select", keyword |-> <<>>]
        ELSE IF hits # {}
        THEN [ok |-> FALSE, error |-> "blocked",
              keyword |-> BLOCKED_SQL_KEYWORDS[CHOOSE k \in hits : \A j \in hits : k <= j]]
        ELSE [ok |-> TRUE, error |-> "", keyword |-> <<>>]

\* str.strip of grave accents (line 35)
RECURSIVE StripTicksLeft(_)
StripTicksLeft(s) ==
    IF s # <<>> /\ Head(s) = TICK THEN StripTicksLeft(Tail(s)) ELSE s

RECURSIVE StripTicksRight(_)
StripTicksRight(s) ==
    IF s # <<>> /\ s[Len(s)] = TICK THEN StripTicksRight(SubSeq(s, 1, Len(s) - 1)) ELSE s

StripTicks(s) == StripTicksRight(StripTicksLeft(s))

\* the re.sub of line 36 (MULTILINE): drops each "--" and the rest of its
\* line, keeping the newline
RECURSIVE RemoveComments(_, _)
RemoveComments(s, in_comment) ==
    IF s = <<>> THEN <<>>
    ELSE IF in_comment
    THEN IF Head(s) = "\n" THEN <<"\n">> \o RemoveComments(Tail(s), FALSE)
         ELSE RemoveComments(Tail(s), TRUE)
    ELSE IF StartsWith(s, S_DASHES) THEN RemoveComments(From(s, 3), TRUE)
    ELSE <<Head(s)>> \o RemoveComments(Tail(s), FALSE)

\* text.split(sep, 1)[0]
BeforeFirst(s, sep) ==
    IF Contains(s, sep) THEN SubSeq(s, 1, Find(s, sep) - 1) ELSE s

\* text.split(sep, 1)[1], for a text that holds sep
AfterFirst(s, sep) == From(s, Find(s, sep) + Len(sep))

\* extract_sql_statement
extract_sql_statement(llm_response) ==
    LET t0 == Strip(llm_response)
        t1 == IF StartsWith(t0, S_FENCE_SQL) THEN Strip(From(t0, 7)) ELSE t0
        t2 == IF StartsWith(t1, S_FENCE) THEN Strip(From(t1, 4)) ELSE t1
        t3 == IF EndsWith(t2, S_FENCE) THEN Strip(SubSeq(t2, 1, Len(t2) - 3)) ELSE t2
        t4 == Strip(StripTicks(t3))
        t5 == RemoveComments(t4, FALSE)
    IN  IF Contains(t5, S_SEMI)
        THEN Strip(BeforeFirst(t5, S_SEMI)) \o S_SEMI
        ELSE Strip(BeforeFirst(t5, S_BLANK_LINE))

\* the position after white space, an optional colon and white space again,
\* matched greedily from position i
SkipSpaces(s, i) ==
    IF \A j \in i..Len(s) : IsSpace(s[j]) THEN Len(s) + 1
    ELSE CHOOSE k \in i..Len(s) : ~IsSpace(s[k]) /\ \A j \in i..(k - 1) : IsSpace(s[j])

SkipMarkerTail(s, i) ==
    LET a == SkipSpaces(s, i)
        b == IF a <= Len(s) /\ s[a] = ":" THEN a + 1 ELSE a
    IN  SkipSpaces(s, b)

\* extract_explanation_and_sql: <<explanation, sql>>
extract_explanation_and_sql(raw) ==
    LET text == Strip(raw)
        low == Lower(text)
        e == Find(low, S_explanation)
        p == IF e > 0 THEN SkipMarkerTail(text, e + Len(S_explanation)) ELSE 0
        q == IF e > 0 THEN Find(From(low, p), S_sql) ELSE 0
    IN  \* case 1, the re.search of line 48: the first "explanation" in any
        \* letter case, then the first "sql" in any letter case after it
        IF e > 0 /\ q > 0
        THEN <<Strip(SubSeq(text, p, p + q - 2)),
               Strip(From(text, SkipMarkerTail(text, p + q - 1 + Len(S_sql))))>>
        ELSE IF Contains(text, S_Explanation_colon)
        THEN <<Strip(AfterFirst(text, S_Explanation_colon)),
               Strip(BeforeFirst(text, S_Explanation_colon))>>
        ELSE <<<<>>, text>>

\* OpenRouterClient.generate_sql: the clean-up of the model's message content
generate_sql(content) ==
    LET s0 == Strip(content)
        s1 == IF StartsWith(s0, S_FENCE_SQL) THEN From(s0, 7) ELSE s0
        s2 == IF EndsWith(s1, S_FENCE) THEN SubSeq(s1, 1, Len(s1) - 3) ELSE s1
    IN  Strip(s2)

\* the re.sub of line 157: drops trailing white space and closing brackets
RECURSIVE TrimExplanation(_)
TrimExplanation(s) ==
    IF s # <<>> /\ (IsSpace(s[Len(s)]) \/ s[Len(s)] \in {"}", "]", ")", ">"})
    THEN TrimExplanation(SubSeq(s, 1, Len(s) - 1))
    ELSE s

\* optional text: None, or a text
NoText == [none |-> TRUE, text |-> <<>>]
Text(s) == [none |-> FALSE, text |-> s]

\* query_table, lines 148-153: <<explanation, sql>> from the model's answer;
\* the explanation is None in plain mode
ExtractFromAnswer(sql_raw, explain) ==
    IF explain
    THEN LET pair == extract_explanation_and_sql(sql_raw)
         IN  <<Text(pair[1]), extract_sql_statement(pair[2])>>
    ELSE <<NoText, extract_sql_statement(Strip(sql_raw))>>

(***************************************************************************)
(* Relationship inferrer: app/routers/query.py, infer_relationships.       *)
(***************************************************************************)
S_id_suffix == <<"_", "i", "d">>

\* an inferrer that also lets a table point to itself
EdgesOfColumn_self(schemas, src, col) ==
    LET candidate_tbl == SubSeq(col, 1, Len(col) - 3) \o <<"s">>
        hit(j) == /\ DictHas(schemas[j].schema.columns, C_id)
                  /\ Lower(candidate_tbl) = Lower(schemas[j].tbl)
        dsts == SelectSeq([j \in 1..Len(schemas) |-> j], hit)
    IN  [n \in 1..Len(dsts) |-> [src |-> src, col |-> col, dst |-> schemas[dsts[n]].tbl]]

\* the tables among the schemas that column col of table src points to, in order
EdgesOfColumn(schemas, src, col) ==
    LET candidate_tbl == SubSeq(col, 1, Len(col) - 3) \o <<"s">>
        hit(j) == /\ schemas[j].tbl # src
                  /\ DictHas(schemas[j].schema.columns, C_id)
                  /\ Lower(candidate_tbl) = Lower(schemas[j].tbl)
        dsts == SelectSeq([j \in 1..Len(schemas) |-> j], hit)
    IN  [n \in 1..Len(dsts) |-> [src |-> src, col |-> col, dst |-> schemas[dsts[n]].tbl]]

RECURSIVE EdgesOfColumns(_, _, _)
EdgesOfColumns(schemas, src, columns) ==
    IF columns = <<>> THEN <<>>
    ELSE (IF EndsWith(Head(columns).name, S_id_suffix)
          THEN EdgesOfColumn(schemas, src, Head(columns).name) ELSE <<>>)
         \o EdgesOfColumns(schemas, src, Tail(columns))

RECURSIVE EdgesOfTables(_, _)
EdgesOfTables(schemas, i) ==
    IF i > Len(schemas) THEN <<>>
    ELSE EdgesOfColumns(schemas, schemas[i].tbl, schemas[i].schema.columns)
         \o EdgesOfTables(schemas, i + 1)

\* infer_relationships: the edges, or a TypeError when a table has no schema
\* (get_table_schema returned None and src_schema['columns'] is evaluated)
infer_relationships(table_names) ==
    LET schemas == [i \in 1..Len(table_names) |->
                        [tbl |-> table_names[i], schema |-> get_table_schema(table_names[i])]]
    IN  IF \E i \in 1..Len(schemas) : schemas[i].schema = None
        THEN [raised |-> TRUE, rels |-> <<>>]
        ELSE [raised |-> FALSE, rels |-> EdgesOfTables(schemas, 1)]

(***************************************************************************)
(* Semantic answer cache: app/utils/semantic_cache.py.                     *)
(***************************************************************************)
\* search's defaults: threshold=0.87 (in hundredths) and k=3
THRESHOLD == 87
K == 3

S_EXPLAIN == <<" ", "[", "E", "X", "P", "L", "A", "I", "N", "]">>

\* questions a request may ask; the second is the first followed by the text
\* that _cache_key appends in explain mode
Q_a == <<"a", "?">>
Q_a_explain == Q_a \o S_EXPLAIN
Questions == {Q_a, Q_a_explain}

\* SemanticNL2SQLCache._cache_key
cache_key(nl_query, explain_flag) ==
    IF explain_flag THEN nl_query \o S_EXPLAIN ELSE nl_query

CacheKeys == {cache_key(q, f) : q \in Questions, f \in BOOLEAN}

\* vectors, one coordinate in tenths: 0 and 1 are near (similarity 0.99),
\* 5 is far from both (similarity 0.86 and 0.80)
Points == {0, 1, 5}

\* the embedding models: SentenceTransformer.encode is some fixed function of
\* the text. Only distances matter, so the first question sits at the origin
Embeddings == {e \in [CacheKeys -> Points] : e[Q_a] = 0}

\* SemanticNL2SQLCache.embed
embed(text) == embedding[text]

\* the squared L2 distance of IndexFlatL2, in hundredths
Distance(v, w) == (v - w) * (v - w)

\* a test that takes a similarity equal to the threshold for a miss
Similar_strict(dist, threshold) == 100 * 100 > threshold * (100 + dist)

\* similarity = 1 / (1 + dist); similarity >= threshold
Similar(dist, threshold) == 100 * 100 >= threshold * (100 + dist)

\* whether a sequence of positions is sorted by ascending distance to vec
Ascending(index, vec, order) ==
    \A i \in 1..(Len(order) - 1) :
        Distance(index[order[i]], vec) <= Distance(index[order[i + 1]], vec)

\* index.search(vec, k): the positions of the k nearest vectors by ascending
\* distance; vectors at equal distance come in an order the library chooses.
\* (With fewer than k vectors the library pads with -1, which search skips.)
IndexSearch(index, vec, k) ==
    LET n == Len(index)
        m == IF n < k THEN n ELSE k
        perms == {o \in [1..n -> 1..n] : \A i, j \in 1..n : i # j => o[i] # o[j]}
    IN  {SubSeq(o, 1, m) : o \in {o \in perms : Ascending(index, vec, o)}}

\* the loop of search without the mode test of lines 37-38
RECURSIVE search_scan_any_mode(_, _, _, _, _, _)
search_scan_any_mode(index, cache, vec, cands, explain_flag, threshold) ==
    IF cands = <<>> THEN [kind |-> "miss"]
    ELSE IF Head(cands) > Len(cache) THEN [kind |-> "error"]
    ELSE IF Similar(Distance(index[Head(cands)], vec), threshold)
    THEN [kind |-> "hit", idx |-> Head(cands)]
    ELSE search_scan_any_mode(index, cache, vec, Tail(cands), explain_flag, threshold)

\* search, lines 35-42: the loop over the candidates. self.cache[idx] raises
\* IndexError for a position the store does not hold yet
RECURSIVE search_scan(_, _, _, _, _, _)
search_scan(index, cache, vec, cands, explain_flag, threshold) ==
    IF cands = <<>> THEN [kind |-> "miss"]
    ELSE IF Head(cands) > Len(cache) THEN [kind |-> "error"]
    ELSE IF cache[Head(cands)].explain_flag # explain_flag
    THEN search_scan(index, cache, vec, Tail(cands), explain_flag, threshold)
    ELSE IF Similar(Distance(index[Head(cands)], vec), threshold)
    THEN [kind |-> "hit", idx |-> Head(cands)]
    ELSE search_scan(index, cache, vec, Tail(cands), explain_flag, threshold)

(***************************************************************************)
(* query_table: app/routers/query.py, one call per worker thread.          *)
(***************************************************************************)
Threads == {"w1", "w2"}
NoThread == "none"

\* what the model may answer
A_select == <<"S", "E", "L", "E", "C", "T", " ", "1">>
A_drop == S_DROP \o <<" ", "t", ";">>
A_smuggle == A_select \o <<"\n">> \o S_DROP \o <<" ", "t", ";">>
A_explained == S_Explanation_colon \o <<" ", "y", ")", "\n", "S", "Q", "L", ":", " ">>
                \o A_select \o <<";">>
ModelAnswers == {A_select, A_drop, A_smuggle, A_explained}

\* ExtractFromAnswer over the answers of the model, and the verdict of
\* validate_sql on each statement extracted, computed once
Extracted == [content \in ModelAnswers, explain \in BOOLEAN |->
                ExtractFromAnswer(generate_sql(content), explain)]
Verdicts == [sql \in {Extracted[x][2] : x \in DOMAIN Extracted} |-> validate_sql(sql)]

IdleLoc == [i |-> 0, cands |-> <<>>, schemas |-> <<>>, rels |-> <<>>,
            explanation |-> NoText, sql |-> <<>>, validated |-> NoText,
            executed |-> NoText, results |-> <<>>]
IdleReq == [tables |-> <<>>, question |-> <<>>, explain |-> FALSE]
\* a response; cached holds the entry search returned (cache_hit), if any
NoAnswer == [status |-> 0, sql |-> <<>>, results |-> <<>>, explanation |-> NoText,
             from_cache |-> FALSE, cached |-> <<>>]

\* query_table returns or raises: the response goes out to the client
QReturn(t, answer) ==
    /\ q_resp' = [q_resp EXCEPT ![t] = answer]
    /\ q_pc' = [q_pc EXCEPT ![t] = "done"]
    /\ q_loc' = [q_loc EXCEPT ![t] = IdleLoc]
    /\ UNCHANGED q_req

QError(t, status) == QReturn(t, [NoAnswer EXCEPT !.status = status])

QGoto(t, pc, loc) ==
    /\ q_pc' = [q_pc EXCEPT ![t] = pc]
    /\ q_loc' = [q_loc EXCEPT ![t] = loc]
    /\ UNCHANGED <<q_req, q_resp>>

\* requests being served by the worker threads
InFlight == {t \in Threads : q_pc[t] \notin {"idle", "done"}}

\* lines 93-96: a request arrives; no table name is a 400
query_table(t, tables, question, explain) ==
    /\ q_pc[t] = "idle"
    /\ Len(sem_index) + Cardinality(InFlight) < MaxEntries
    /\ q_req' = [q_req EXCEPT ![t] =
                    [tables |-> tables, question |-> question, explain |-> explain]]
    /\ IF tables = <<>>
       THEN /\ q_resp' = [q_resp EXCEPT ![t] = [NoAnswer EXCEPT !.status = 400]]
            /\ q_pc' = [q_pc EXCEPT ![t] = "done"]
            /\ UNCHANGED q_loc
       ELSE /\ q_pc' = [q_pc EXCEPT ![t] = "exists"]
            /\ q_loc' = [q_loc EXCEPT ![t] = [IdleLoc EXCEPT !.i = 1]]
            /\ UNCHANGED q_resp
    /\ UNCHANGED <<pipe_vars, registry_vars, cache_vars>>

\* an existence check that looks at the first requested table only
query_table_exists_first(t) ==
    /\ q_pc[t] = "exists"
    /\ IF ~table_exists(q_req[t].tables[1]) THEN QError(t, 404)
       ELSE QGoto(t, "search", [q_loc[t] EXCEPT !.i = 0])
    /\ UNCHANGED <<pipe_vars, registry_vars, cache_vars>>

\* lines 97-102: one turn of the loop over the tables; an absent table is a 404
query_table_exists(t) ==
    /\ q_pc[t] = "exists"
    /\ LET i == q_loc[t].i
           tbl == q_req[t].tables[i]
       IN  IF ~table_exists(tbl) THEN QError(t, 404)
           ELSE IF i < Len(q_req[t].tables)
           THEN QGoto(t, "exists", [q_loc[t] EXCEPT !.i = i + 1])
           ELSE QGoto(t, "search", [q_loc[t] EXCEPT !.i = 0])
    /\ UNCHANGED <<pipe_vars, registry_vars, cache_vars>>

\* the response has gone out: the worker thread is free again
query_respond(t) ==
    /\ q_pc[t] = "done"
    /\ q_pc' = [q_pc EXCEPT ![t] = "idle"]
    /\ q_req' = [q_req EXCEPT ![t] = IdleReq]
    /\ q_resp' = [q_resp EXCEPT ![t] = NoAnswer]
    /\ UNCHANGED q_loc
    /\ UNCHANGED <<pipe_vars, registry_vars, cache_vars>>

\* the threshold and k of a call of search: threshold=0.87 and k=3 unless the
\* caller passes them (line 30); query_table passes neither
ThresholdOf(t) ==
    IF "threshold" \in DOMAIN q_req[t] THEN q_req[t].threshold ELSE THRESHOLD

KOf(t) == IF "k" \in DOMAIN q_req[t] THEN q_req[t].k ELSE K

\* semantic_cache.search, lines 31-34, called from line 105 without the lock:
\* an empty index is a miss, else the index is searched
cache_search_index(t) ==
    /\ q_pc[t] = "search"
    /\ IF Len(sem_index) = 0
       THEN QGoto(t, "schemas", q_loc[t])
       ELSE \E cands \in IndexSearch(sem_index,
                            embed(cache_key(q_req[t].question, q_req[t].explain)), KOf(t)) :
                QGoto(t, "scan", [q_loc[t] EXCEPT !.cands = cands])
    /\ UNCHANGED <<pipe_vars, registry_vars, cache_vars>>

\* a handler that, on a hit, stores the entry it found once more
cache_search_scan_refresh(t) ==
    /\ q_pc[t] = "scan"
    /\ LET found == search_scan(sem_index, sem_cache,
                        embed(cache_key(q_req[t].question, q_req[t].explain)),
                        q_loc[t].cands, q_req[t].explain, ThresholdOf(t))
       IN  IF found.kind = "hit"
           THEN /\ QReturn(t, [status |-> 200, sql |-> sem_cache[found.idx].sql,
                            results |-> sem_cache[found.idx].result,
                            explanation |-> sem_cache[found.idx].explanation,
                            from_cache |-> TRUE, cached |-> <<sem_cache[found.idx]>>])
                /\ sem_index' = Append(sem_index, sem_index[found.idx])
                /\ sem_cache' = Append(sem_cache, sem_cache[found.idx])
           ELSE /\ IF found.kind = "error" THEN QError(t, 500)
                   ELSE QGoto(t, "schemas", q_loc[t])
                /\ UNCHANGED <<sem_index, sem_cache>>
    /\ UNCHANGED <<pipe_vars, registry_vars, sem_lock, embedding>>

\* semantic_cache.search, lines 35-42, and lines 106-113 of query_table: a hit
\* is answered from the cache; an IndexError is caught at line 168 (a 500)
cache_search_scan(t) ==
    /\ q_pc[t] = "scan"
    /\ LET found == search_scan(sem_index, sem_cache,
                        embed(cache_key(q_req[t].question, q_req[t].explain)),
                        q_loc[t].cands, q_req[t].explain, ThresholdOf(t))
       IN  IF found.kind = "hit"
           THEN QReturn(t, [status |-> 200, sql |-> sem_cache[found.idx].sql,
                            results |-> sem_cache[found.idx].result,
                            explanation |-> sem_cache[found.idx].explanation,
                            from_cache |-> TRUE, cached |-> <<sem_cache[found.idx]>>])
           ELSE IF found.kind = "error" THEN QError(t, 500)
           ELSE QGoto(t, "schemas", q_loc[t])
    /\ UNCHANGED <<pipe_vars, registry_vars, cache_vars>>

\* line 114: the schema of every requested table (None for one that is gone)
query_get_schemas(t) ==
    /\ q_pc[t] = "schemas"
    /\ QGoto(t, "infer", [q_loc[t] EXCEPT !.schemas =
            [i \in 1..Len(q_req[t].tables) |-> get_table_schema(q_req[t].tables[i])]])
    /\ UNCHANGED <<pipe_vars, registry_vars, cache_vars>>

\* lines 115-120: the relationships and the schema text of the prompt; a
\* missing schema raises a TypeError, caught at line 168 (a 500)
query_infer(t) ==
    /\ q_pc[t] = "infer"
    /\ LET inferred == infer_relationships(q_req[t].tables)
       IN  IF inferred.raised \/ \E i \in 1..Len(q_loc[t].schemas) : q_loc[t].schemas[i] = None
           THEN QError(t, 500)
           ELSE QGoto(t, "generate", [q_loc[t] EXCEPT !.rels = inferred.rels])
    /\ UNCHANGED <<pipe_vars, registry_vars, cache_vars>>

\* lines 145-153: the model answers with content, which is split and extracted
query_generate(t, content) ==
    /\ q_pc[t] = "generate"
    /\ LET pair == Extracted[content, q_req[t].explain]
       IN  QGoto(t, "validate", [q_loc[t] EXCEPT !.cands = <<>>, !.schemas = <<>>,
                    !.rels = <<>>, !.explanation = pair[1], !.sql = pair[2]])
    /\ UNCHANGED <<pipe_vars, registry_vars, cache_vars>>

\* line 145: the call of the model raises, caught at line 168 (a 500)
query_generate_raises(t) ==
    /\ q_pc[t] = "generate"
    /\ QError(t, 500)
    /\ UNCHANGED <<pipe_vars, registry_vars, cache_vars>>

\* a handler that goes on to the engine whatever validate_sql says
query_validate_unchecked(t) ==
    /\ q_pc[t] = "validate"
    /\ QGoto(t, "execute", q_loc[t])
    /\ UNCHANGED <<pipe_vars, registry_vars, cache_vars>>

\* line 154: validate_sql raises (a 500) or lets the statement through
query_validate(t) ==
    /\ q_pc[t] = "validate"
    /\ IF Verdicts[q_loc[t].sql].ok
       THEN QGoto(t, "execute", [q_loc[t] EXCEPT !.validated = Text(q_loc[t].sql)])
       ELSE QError(t, 500)
    /\ UNCHANGED <<pipe_vars, registry_vars, cache_vars>>

\* lines 155-157: the engine runs the statement and returns rows; a
\* non-empty explanation loses its trailing brackets
query_execute(t, rows) ==
    /\ q_pc[t] = "execute"
    /\ QGoto(t, "add", [q_loc[t] EXCEPT !.executed = Text(q_loc[t].sql),
            !.results = rows,
            !.explanation = IF q_loc[t].explanation.none
                               \/ q_loc[t].explanation.text = <<>>
                            THEN q_loc[t].explanation
                            ELSE Text(TrimExplanation(Strip(q_loc[t].explanation.text)))])
    /\ UNCHANGED <<pipe_vars, registry_vars, cache_vars>>

\* a handler that stores the answer although the engine raised
query_execute_raises_stored(t) ==
    /\ q_pc[t] = "execute"
    /\ QGoto(t, "add", q_loc[t])
    /\ UNCHANGED <<pipe_vars, registry_vars, cache_vars>>

\* line 155: the engine raises, caught at line 168 (a 500)
query_execute_raises(t) ==
    /\ q_pc[t] = "execute"
    /\ QError(t, 500)
    /\ UNCHANGED <<pipe_vars, registry_vars, cache_vars>>

\* an add that enters lines 20-27 without waiting for the lock
cache_add_nolock(t) ==
    /\ q_pc[t] = "add"
    /\ sem_lock' = t
    /\ QGoto(t, "add_index", q_loc[t])
    /\ UNCHANGED <<pipe_vars, registry_vars, sem_index, sem_cache, embedding>>

\* semantic_cache.add, lines 18-19, called from line 159: the lock is taken
cache_add_lock(t) ==
    /\ q_pc[t] = "add"
    /\ sem_lock = NoThread
    /\ sem_lock' = t
    /\ QGoto(t, "add_index", q_loc[t])
    /\ UNCHANGED <<pipe_vars, registry_vars, sem_index, sem_cache, embedding>>

\* semantic_cache.add, line 20: the vector goes into the index
cache_add_index(t) ==
    /\ q_pc[t] = "add_index"
    /\ sem_index' = Append(sem_index, embed(cache_key(q_req[t].question, q_req[t].explain)))
    /\ QGoto(t, "add_store", q_loc[t])
    /\ UNCHANGED <<pipe_vars, registry_vars, sem_cache, sem_lock, embedding>>

\* an add that overwrites the stored entry of the same question and mode
cache_add_store_replace(t) ==
    /\ q_pc[t] = "add_store"
    /\ LET entry == [nl_query |-> q_req[t].question, sql |-> q_loc[t].sql,
                     result |-> q_loc[t].results,
                     explanation |-> IF q_req[t].explain THEN q_loc[t].explanation
                                     ELSE NoText,
                     explain_flag |-> q_req[t].explain]
           same(e) == e.nl_query = entry.nl_query /\ e.explain_flag = entry.explain_flag
       IN  sem_cache' = IF \E i \in 1..Len(sem_cache) : same(sem_cache[i])
                        THEN [i \in 1..Len(sem_cache) |->
                                IF same(sem_cache[i]) THEN entry ELSE sem_cache[i]]
                        ELSE Append(sem_cache, entry)
    /\ sem_lock' = NoThread
    /\ QReturn(t, [status |-> 200, sql |-> q_loc[t].sql, results |-> q_loc[t].results,
                   explanation |-> IF q_loc[t].explanation.none THEN Text(<<>>)
                                   ELSE q_loc[t].explanation,
                   from_cache |-> FALSE, cached |-> <<>>])
    /\ UNCHANGED <<pipe_vars, registry_vars, sem_index, embedding>>

\* semantic_cache.add, lines 21-27: the entry goes into the store and the
\* lock is released; query_table answers (lines 160-165)
cache_add_store(t) ==
    /\ q_pc[t] = "add_store"
    /\ sem_cache' = Append(sem_cache,
            [nl_query |-> q_req[t].question, sql |-> q_loc[t].sql,
             result |-> q_loc[t].results,
             explanation |-> IF q_req[t].explain THEN q_loc[t].explanation ELSE NoText,
             explain_flag |-> q_req[t].explain])
    /\ sem_lock' = NoThread
    /\ QReturn(t, [status |-> 200, sql |-> q_loc[t].sql, results |-> q_loc[t].results,
                   explanation |-> IF q_loc[t].explanation.none THEN Text(<<>>)
                                   ELSE q_loc[t].explanation,
                   from_cache |-> FALSE, cached |-> <<>>])
    /\ UNCHANGED <<pipe_vars, registry_vars, sem_index, embedding>>

(***************************************************************************)
(* The semantic cache called on its own: add and search as any caller may  *)
(* call them, one call at a time.                                          *)
(***************************************************************************)
\* thresholds a caller may pass, in hundredths: at distance 0.25 the
\* similarity is 0.80, equal to the first and below the second
Thresholds == {80, 81}

\* statements a caller may store
Statements == {A_select, A_select \o S_SEMI}

\* semantic_cache.add(nl_query, sql, result, explanation, explain_flag) is
\* called; lines 18-27 run as in cache_add_lock, cache_add_index and
\* cache_add_store
add(t, nl_query, sql, result, explain_flag) ==
    /\ q_pc[t] = "idle"
    /\ Len(sem_index) + Cardinality(InFlight) < MaxEntries
    /\ q_req' = [q_req EXCEPT ![t] =
                    [tables |-> <<>>, question |-> nl_query, explain |-> explain_flag]]
    /\ q_pc' = [q_pc EXCEPT ![t] = "add"]
    /\ q_loc' = [q_loc EXCEPT ![t] = [IdleLoc EXCEPT !.sql = sql, !.results = result]]
    /\ UNCHANGED q_resp
    /\ UNCHANGED <<pipe_vars, registry_vars, cache_vars>>

\* semantic_cache.search(nl_query, explain_flag) is called; lines 31-42 run as
\* in cache_search_index and cache_search_scan
search(t, nl_query, explain_flag) ==
    /\ q_pc[t] = "idle"
    /\ q_req' = [q_req EXCEPT ![t] =
                    [tables |-> <<>>, question |-> nl_query, explain |-> explain_flag]]
    /\ q_pc' = [q_pc EXCEPT ![t] = "search"]
    /\ q_loc' = [q_loc EXCEPT ![t] = IdleLoc]
    /\ UNCHANGED q_resp
    /\ UNCHANGED <<pipe_vars, registry_vars, cache_vars>>

\* semantic_cache.search(nl_query, explain_flag, threshold, k) is called with
\* a threshold and a k of the caller's choice
search_with(t, nl_query, explain_flag, threshold, k) ==
    /\ q_pc[t] = "idle"
    /\ q_req' = [q_req EXCEPT ![t] =
                    [tables |-> <<>>, question |-> nl_query, explain |-> explain_flag,
                     threshold |-> threshold, k |-> k]]
    /\ q_pc' = [q_pc EXCEPT ![t] = "search"]
    /\ q_loc' = [q_loc EXCEPT ![t] = IdleLoc]
    /\ UNCHANGED q_resp
    /\ UNCHANGED <<pipe_vars, registry_vars, cache_vars>>

\* lines 32 and 42: search returns None to its caller
search_none(t) ==
    /\ q_pc[t] = "schemas"
    /\ QReturn(t, NoAnswer)
    /\ UNCHANGED <<pipe_vars, registry_vars, cache_vars>>

(***************************************************************************)
(* Lines 145-154 of query_table on one model response, without the rest of *)
(* the handler: the clean-up of generate_sql, the extraction, validate_sql. *)
(***************************************************************************)
S_SQL_colon == <<"S", "Q", "L", ":">>

\* the pieces a model response is made of
Fragments == {A_select, S_DROP, <<" ">>, <<"\n">>, <<"\t">>, S_SEMI, <<"(">>,
              S_DASHES, S_FENCE, S_Explanation_colon, S_SQL_colon}

\* the texts made of at most n fragments
RECURSIVE Concats(_)
Concats(n) ==
    IF n = 0 THEN {<<>>}
    ELSE LET shorter == Concats(n - 1)
         IN  shorter \cup {a \o f : a \in shorter, f \in Fragments}

Responses == Concats(MaxFragments)

NoPipe == [pc |-> "idle", content |-> <<>>, explain |-> FALSE, sql_raw |-> <<>>,
           explanation |-> NoText, sql |-> <<>>,
           verdict |-> [ok |-> FALSE, error |-> "", keyword |-> <<>>]]

\* the model has answered with content
PipeStart(content, explain) ==
    [NoPipe EXCEPT !.pc = "content", !.content = content, !.explain = explain]

\* line 145: sql_raw = openrouter_client.generate_sql(prompt)
pipe_generate ==
    /\ pipe.pc = "content"
    /\ pipe' = [pipe EXCEPT !.pc = "raw", !.sql_raw = generate_sql(pipe.content)]
    /\ UNCHANGED <<registry_vars, cache_vars, query_vars>>

\* lines 148-153: the explanation is split off, the statement extracted
pipe_extract ==
    /\ pipe.pc = "raw"
    /\ LET pair == ExtractFromAnswer(pipe.sql_raw, pipe.explain)
       IN  pipe' = [pipe EXCEPT !.pc = "sql",
                        !.explanation = pair[1],
                        !.sql = pair[2]]
    /\ UNCHANGED <<registry_vars, cache_vars, query_vars>>

\* line 154: validate_sql(sql); a statement it lets through goes to the engine
pipe_validate ==
    /\ pipe.pc = "sql"
    /\ pipe' = [pipe EXCEPT !.pc = "verdict", !.verdict = validate_sql(pipe.sql)]
    /\ UNCHANGED <<registry_vars, cache_vars, query_vars>>

(***************************************************************************)
(* The process is killed and started again: memory is lost, the snapshot   *)
(* file is what it was, or a part of the text when the kill interrupts     *)
(* json.dump.                                                              *)
(***************************************************************************)
crash_restart ==
    /\ \E f \in IF loop_pc = "write"
                THEN {[kind |-> "text", text |-> SubSeq(Dump(schema_cache), 1, n)] :
                        n \in 0..(Len(Dump(schema_cache)) - 1)}
                ELSE {cache_file} :
        /\ cache_file' = f
        /\ schema_cache' = LoadCache(f)
    /\ loop_pc' = "idle"
    /\ loop_req' = NoRequest
    /\ loop_resp' = NoResponse
    /\ save_phase' = "update"
    /\ pre_cache' = <<>>
    /\ pre_file' = [kind |-> "absent"]
    /\ sem_index' = <<>>
    /\ sem_cache' = <<>>
    /\ sem_lock' = NoThread
    /\ q_pc' = [t \in Threads |-> "idle"]
    /\ q_req' = [t \in Threads |-> IdleReq]
    /\ q_loc' = [t \in Threads |-> IdleLoc]
    /\ q_resp' = [t \in Threads |-> NoAnswer]
    /\ UNCHANGED <<clock, embedding, pipe_vars>>

(***************************************************************************)
(* Specifications.                                                         *)
(***************************************************************************)
\* the state after construction, SchemaCache() having loaded snapshot file f
\* and SemanticNL2SQLCache() using embedding model e
Started(f, e) ==
    /\ cache_file = f
    /\ schema_cache = LoadCache(f)
    /\ clock = 0
    /\ loop_pc = "idle"
    /\ loop_req = NoRequest
    /\ loop_resp = NoResponse
    /\ save_phase = "update"
    /\ pre_cache = <<>>
    /\ pre_file = [kind |-> "absent"]
    /\ sem_index = <<>>
    /\ sem_cache = <<>>
    /\ sem_lock = NoThread
    /\ embedding = e
    /\ q_pc = [t \in Threads |-> "idle"]
    /\ q_req = [t \in Threads |-> IdleReq]
    /\ q_loc = [t \in Threads |-> IdleLoc]
    /\ q_resp = [t \in Threads |-> NoAnswer]

\* a snapshot left by an earlier run, with the tables cs and u
OldSnapshot ==
    Dump(<< [name |-> N_cs, columns |-> COLS_id_n, created_at |-> 0],
            [name |-> N_u, columns |-> COLS_id_cid, created_at |-> 0] >>)

\* the registry alone: the event-loop handlers and restarts, on a first start
\* (no snapshot file) or after a run that left a malformed file
InitRegistry ==
    /\ \E f \in {[kind |-> "absent"], [kind |-> "text", text |-> <<>>]} :
            Started(f, [k \in CacheKeys |-> 0])
    /\ pipe = NoPipe

NextRegistry ==
    \/ \E name \in TableNames, columns \in ColumnSets \cup {<<>>} :
            create_table(name, columns)
    \/ \E name \in TableNames : delete_table(name)
    \/ \E name \in TableNames, csv_ok \in BOOLEAN : insert_data(name, csv_ok)
    \/ \E name \in TableNames : get_schema(name)
    \/ list_schemas
    \/ create_dynamic_model
    \/ save_cache_open
    \/ save_cache_write
    \/ after_dynamic_model
    \/ loop_respond
    \/ crash_restart

SpecRegistry == InitRegistry /\ [][NextRegistry]_vars

\* the snapshot texts a write of OldSnapshot torn at any point leaves behind:
\* none of them is a complete JSON text
TornSnapshots ==
    {[kind |-> "text", text |-> SubSeq(OldSnapshot, 1, n)] : n \in 0..(Len(OldSnapshot) - 1)}

\* one run of the process that found a malformed snapshot file at start-up:
\* the event-loop handlers, from the construction of the registry on
InitStartup ==
    /\ \E f \in TornSnapshots : Started(f, [k \in CacheKeys |-> 0])
    /\ pipe = NoPipe

NextStartup ==
    \/ \E name \in TableNames, columns \in ColumnSets \cup {<<>>} :
            create_table(name, columns)
    \/ \E name \in TableNames : delete_table(name)
    \/ \E name \in TableNames, csv_ok \in BOOLEAN : insert_data(name, csv_ok)
    \/ \E name \in TableNames : get_schema(name)
    \/ list_schemas
    \/ create_dynamic_model
    \/ save_cache_open
    \/ save_cache_write
    \/ after_dynamic_model
    \/ loop_respond

SpecStartup == InitStartup /\ [][NextStartup]_vars

\* the query handler on two worker threads, over the registry of an earlier
\* run: every request names the table cs, and the engine returns one row
InitQuery ==
    /\ \E e \in Embeddings : Started([kind |-> "text", text |-> OldSnapshot], e)
    /\ pipe = NoPipe

NextQuery ==
    \E t \in Threads :
        \/ \E question \in Questions, explain \in BOOLEAN :
                query_table(t, <<N_Cs>>, question, explain)
        \/ query_table_exists(t)
        \/ cache_search_index(t)
        \/ cache_search_scan(t)
        \/ query_get_schemas(t)
        \/ query_infer(t)
        \/ \E content \in ModelAnswers : query_generate(t, content)
        \/ query_generate_raises(t)
        \/ query_validate(t)
        \/ \E rows \in {<<"row">>} : query_execute(t, rows)
        \/ query_execute_raises(t)
        \/ cache_add_lock(t)
        \/ cache_add_index(t)
        \/ cache_add_store(t)
        \/ query_respond(t)

SpecQuery == InitQuery /\ [][NextQuery]_vars

\* model responses wrapped in a code fence with a language tag: the opening
\* fence line, a statement that begins with SELECT, may run over two lines
\* and hold a line comment, its terminator, more text, the closing fence line
FenceOpeners == {S_FENCE_SQL \o <<"\n">>, S_FENCE \o <<"p", "y", "\n">>}
StatementMiddles == {<<>>, <<"\n", "x">>, S_DASHES \o <<"c", "\n", "x">>}
FenceCloser == <<"\n">> \o S_FENCE

Fenced(open, middle, rest) ==
    open \o A_select \o middle \o S_SEMI \o rest \o FenceCloser

FencedResponses ==
    {Fenced(open, middle, rest) :
        open \in FenceOpeners, middle \in StatementMiddles, rest \in Concats(1)}

\* one fenced model response, in either mode, through the pipeline
InitFenced ==
    /\ Started([kind |-> "absent"], [k \in CacheKeys |-> 0])
    /\ \E content \in FencedResponses, explain \in BOOLEAN :
            pipe = PipeStart(content, explain)

NextFenced ==
    \/ pipe_generate
    \/ pipe_extract
    \/ pipe_validate

SpecFenced == InitFenced /\ [][NextFenced]_vars

\* model responses with both markers: "Explanation:", an explanation,
\* "SQL:", a statement
Explanations == {<<" ", "B", ".", " ">>, <<" ", "y", ")", "\n">>, <<"\n", "B", "\n">>,
                 <<" ", "a", " ", "s", "q", "l", " ", "b", " ">>,
                 <<" ", "S", "Q", "L", "i", "t", "e", ".", "\n">>,
                 <<" ", "a", ":", "b", " ">>}
MarkedStatements == {<<" ">> \o A_select \o S_SEMI, A_select, <<"\n">> \o A_select \o <<";", "\n">>,
                     <<" ">> \o A_drop}

Marked(E, S) == S_Explanation_colon \o E \o S_SQL_colon \o S

MarkedResponses == {Marked(E, S) : E \in Explanations, S \in MarkedStatements}

\* model responses without the marker "Explanation:": statements that name
\* columns or tables explanation and sql, in lower case or without the colon
UnmarkedResponses ==
    {A_select, A_select \o S_SEMI,
     S_SELECT \o <<" ">> \o S_explanation \o <<";">>,
     S_SELECT \o <<" ">> \o S_sql \o <<";">>,
     S_SELECT \o <<" ">> \o S_explanation \o <<",", " ">> \o S_sql \o <<";">>,
     S_SELECT \o <<" ", "E">> \o Tail(S_explanation) \o <<" ", "S", "Q", "L", ";">>}

\* one response, with both markers or without the explanation marker, in
\* either mode, through the pipeline
InitMarked ==
    /\ Started([kind |-> "absent"], [k \in CacheKeys |-> 0])
    /\ \E content \in MarkedResponses \cup UnmarkedResponses, explain \in BOOLEAN :
            pipe = PipeStart(content, explain)

NextMarked ==
    \/ pipe_generate
    \/ pipe_extract
    \/ pipe_validate

SpecMarked == InitMarked /\ [][NextMarked]_vars

\* the semantic cache on its own, with one caller that adds and searches
InitCache ==
    /\ \E e \in Embeddings : Started([kind |-> "text", text |-> OldSnapshot], e)
    /\ pipe = NoPipe

NextCache ==
    \E t \in {"w1"} :
        \/ \E nl_query \in Questions, sql \in Statements, explain_flag \in BOOLEAN :
                add(t, nl_query, sql, <<"row">>, explain_flag)
        \/ cache_add_lock(t)
        \/ cache_add_index(t)
        \/ cache_add_store(t)
        \/ \E nl_query \in Questions, explain_flag \in BOOLEAN :
                search(t, nl_query, explain_flag)
        \/ \E nl_query \in Questions, explain_flag \in BOOLEAN,
              threshold \in Thresholds, k \in 1..K :
                search_with(t, nl_query, explain_flag, threshold, k)
        \/ cache_search_index(t)
        \/ cache_search_scan(t)
        \/ search_none(t)
        \/ query_respond(t)

SpecCache == InitCache /\ [][NextCache]_vars

\* the table lists a query may name: one table, two in either order, or
\* three with one table named twice
TableLists == {<<N_cs>>, <<N_u, N_Cs>>, <<N_cs, N_u>>, <<N_u, N_cs, N_Cs>>}

\* the whole service over the registry of an earlier run: the event loop
\* creating and dropping tables while one worker thread answers queries
InitServe ==
    /\ Started([kind |-> "text", text |-> OldSnapshot], [k \in CacheKeys |-> 0])
    /\ pipe = NoPipe

NextServe ==
    \/ \E name \in {N_u, N_cs}, columns \in ColumnSets : create_table(name, columns)
    \/ \E name \in {N_u, N_cs} : delete_table(name)
    \/ create_dynamic_model
    \/ save_cache_open
    \/ save_cache_write
    \/ after_dynamic_model
    \/ loop_respond
    \/ \E t \in {"w1"} :
        \/ \E tables \in TableLists \cup {<<>>} : query_table(t, tables, Q_a, FALSE)
        \/ query_table_exists(t)
        \/ cache_search_index(t)
        \/ cache_search_scan(t)
        \/ query_get_schemas(t)
        \/ query_infer(t)
        \/ \E content \in {A_select, A_drop} : query_generate(t, content)
        \/ query_generate_raises(t)
        \/ query_validate(t)
        \/ \E rows \in {<<"row">>} : query_execute(t, rows)
        \/ query_execute_raises(t)
        \/ cache_add_lock(t)
        \/ cache_add_index(t)
        \/ cache_add_store(t)
        \/ query_respond(t)

SpecServe == InitServe /\ [][NextServe]_vars

\* the table lists of two clients that ask the same question of different
\* tables
SharedTableLists == {<<N_cs>>, <<N_u, N_Cs>>}

\* two worker threads answering the same question asked of either table
\* list, over the registry of an earlier run
InitShared ==
    /\ Started([kind |-> "text", text |-> OldSnapshot], [k \in CacheKeys |-> 0])
    /\ pipe = NoPipe

NextShared ==
    \E t \in Threads :
        \/ \E tables \in SharedTableLists : query_table(t, tables, Q_a, FALSE)
        \/ query_table_exists(t)
        \/ cache_search_index(t)
        \/ cache_search_scan(t)
        \/ query_get_schemas(t)
        \/ query_infer(t)
        \/ \E content \in {A_select} : query_generate(t, content)
        \/ query_validate(t)
        \/ \E rows \in {<<"row">>} : query_execute(t, rows)
        \/ cache_add_lock(t)
        \/ cache_add_index(t)
        \/ cache_add_store(t)
        \/ query_respond(t)

SpecShared == InitShared /\ [][NextShared]_vars

\* one model response, of any content in either mode, through the pipeline
InitPipeline ==
    /\ Started([kind |-> "absent"], [k \in CacheKeys |-> 0])
    /\ \E content \in Responses, explain \in BOOLEAN : pipe = PipeStart(content, explain)

NextPipeline ==
    \/ pipe_generate
    \/ pipe_extract
    \/ pipe_validate

SpecPipeline == InitPipeline /\ [][NextPipeline]_vars

(***************************************************************************)
(* Properties.                                                             *)
(***************************************************************************)
\* the other worker thread
Other(t) == CHOOSE u \in Threads : u # t

\* the letter-case variants of a table name among the names in use
CaseVariants(name) == {n \in TableNames : Lower(n) = Lower(name)}

\* an event-loop handler has returned this response to this operation
Returned(op, status) ==
    /\ loop_pc = "done"
    /\ loop_req.op = op
    /\ loop_resp.status = status

\* C1: the engine is invoked only with a statement on which validate_sql has
\* succeeded earlier in the same request: whenever a request has run a
\* statement, that text is the one it validated, and validate_sql accepts it.
C1_ExecutedWasValidated ==
    \A t \in Threads :
        ~q_loc[t].executed.none =>
            /\ q_loc[t].validated = q_loc[t].executed
            /\ Verdicts[q_loc[t].executed.text].ok

\* a request has run its statement and is about to store the answer
C1_Witness ==
    \E t \in Threads :
        /\ q_pc[t] = "add"
        /\ ~q_loc[t].executed.none
        /\ q_loc[t].executed = q_loc[t].validated

IsWordChar(c) ==
    \/ \E i \in 1..26 : c = UpperAlpha[i] \/ c = LowerAlpha[i]
    \/ c \in {"0", "1", "2", "3", "4", "5", "6", "7", "8", "9", "_"}

\* word w stands in s as a whole word: no letter, digit or underscore on
\* either side of it
HasWholeWord(s, w) ==
    \E i \in 1..(Len(s) - Len(w) + 1) :
        /\ MatchAt(s, w, i)
        /\ i = 1 \/ ~IsWordChar(s[i - 1])
        /\ i + Len(w) > Len(s) \/ ~IsWordChar(s[i + Len(w)])

\* something other than white space follows a statement terminator
HasSecondStatement(s) ==
    \E i \in 1..Len(s) : s[i] = ";" /\ \E j \in (i + 1)..Len(s) : ~IsSpace(s[j])

SingleReadOnlyQuery(sql) ==
    /\ StartsWith(Upper(Strip(sql)), S_SELECT)
    /\ \A k \in 1..Len(BLOCKED_SQL_KEYWORDS) : ~HasWholeWord(Upper(sql), BLOCKED_SQL_KEYWORDS[k])
    /\ ~HasSecondStatement(sql)

\* C2: whatever the model answers, a statement that extraction returns and
\* validate_sql lets through starts with SELECT, holds none of the blocked
\* keywords as a whole word (whatever delimits the word) and holds no second
\* statement.
C2_OnlySingleReadOnlyQuery ==
    (pipe.pc = "verdict" /\ pipe.verdict.ok) => SingleReadOnlyQuery(pipe.sql)

\* C3: search never returns an entry whose stored mode differs from the
\* requested mode: a request answered from the cache got an entry stored
\* under its own mode (so a question stored in plain mode alone is a miss for
\* the same question in explain mode).
C3_HitHasRequestedMode ==
    \A t \in Threads :
        (q_pc[t] = "done" /\ q_resp[t].cached # <<>>) =>
            q_resp[t].cached[1].explain_flag = q_req[t].explain

\* the store holds one entry, stored in plain mode; an explain-mode search for
\* the identical question has looked at it, near enough for a hit, and missed
C3_Witness ==
    \E t \in Threads :
        /\ q_pc[t] = "schemas"
        /\ q_req[t].explain
        /\ q_loc[t].cands = <<1>>
        /\ Len(sem_cache) = 1
        /\ sem_cache[1].nl_query = q_req[t].question
        /\ ~sem_cache[1].explain_flag
        /\ Similar(Distance(sem_index[1], embed(cache_key(q_req[t].question, TRUE))),
                   THRESHOLD)

\* C4: a search never holds a position of the index that has no entry in the
\* store, and never runs while an add is between its two appends.
C4_SearchSeesPairedIndexAndStore ==
    \A t \in Threads :
        q_pc[t] = "scan" =>
            /\ \A k \in 1..Len(q_loc[t].cands) : q_loc[t].cands[k] <= Len(sem_cache)
            /\ q_pc[Other(t)] \notin {"add_index", "add_store"}

\* C5: the index and the store are aligned: entry i of the store has its
\* vector, the embedding of its mode-augmented question, at position i of the
\* index, and whenever no add is inside the lock the two have the same length.
C5_IndexAlignedWithStore ==
    /\ sem_lock = NoThread => Len(sem_index) = Len(sem_cache)
    /\ Len(sem_cache) <= Len(sem_index)
    /\ \A i \in 1..Len(sem_cache) :
            sem_index[i] = embed(cache_key(sem_cache[i].nl_query, sem_cache[i].explain_flag))

\* two requests with the same question and mode have both missed and both
\* added: their adds are complete and the lock is free
C5_Witness ==
    /\ sem_lock = NoThread
    /\ Len(sem_cache) = 2
    /\ \A t \in Threads :
            /\ q_pc[t] = "done"
            /\ q_resp[t].status = 200
            /\ ~q_resp[t].from_cache
    /\ \A t, u \in Threads : q_req[t] = q_req[u]

\* C6: after a table definition has succeeded, the schema read back under any
\* letter case of the name holds every supplied column and exactly one
\* identity column.
C6_SchemaHasSuppliedPlusIdentity ==
    Returned("create", 200) =>
        \A n \in CaseVariants(loop_req.name) :
            /\ table_exists(n)
            /\ LET got == get_table_schema(n).columns
               IN  /\ \A i \in 1..Len(loop_req.columns) :
                            \E j \in 1..Len(got) : got[j] = loop_req.columns[i]
                   /\ Cardinality({j \in 1..Len(got) : Lower(got[j].name) = C_id}) = 1

\* a delete of a name the registry did not hold has returned
DeletedAbsent ==
    /\ loop_pc = "done"
    /\ loop_req.op = "delete"
    /\ ~DictHas(pre_cache, Lower(loop_req.name))

\* C7: after a successful delete no letter case of the name exists; a delete
\* of a name the registry does not hold does not fail (it is answered 200,
\* nothing removed) and leaves the registry and the snapshot file as they were.
C7_RemovedIsAbsent ==
    /\ Returned("delete", 200) =>
            \A n \in CaseVariants(loop_req.name) : ~table_exists(n)
    /\ DeletedAbsent =>
            /\ loop_resp.status = 200
            /\ schema_cache = pre_cache
            /\ cache_file = pre_file

\* C8: whenever no registry operation is running, loading the snapshot file
\* into a fresh registry gives the in-memory mapping.
C8_SnapshotEqualsMemory ==
    loop_pc \in {"idle", "done"} => DictEq(LoadCache(cache_file), schema_cache)

\* C9: a crash during a mutating call leaves the snapshot file as it was
\* before the call, or a complete snapshot: never an empty or partly written
\* text.
C9_CrashKeepsSnapshot ==
    [][(loop_pc \in {"model", "open", "write", "after_model"} /\ loop_pc' = "idle") =>
            \/ cache_file' = pre_file
            \/ cache_file'.kind = "text" /\ WellFormed(cache_file'.text)]_vars

\* C10: when the write of the snapshot fails, the caller gets the error and
\* the in-memory mapping is what it was before the call.
C10_StorageFailureRollsBack ==
    (loop_pc = "done" /\ loop_resp.storage_failure) =>
        /\ loop_resp.status = 500
        /\ DictEq(schema_cache, pre_cache)

\* the tables of a mapping with their columns, whatever their time stamps
TablesOf(d) == {[name |-> d[i].name, columns |-> d[i].columns] : i \in 1..Len(d)}

\* the mapping a returned create or delete gives when applied alone to the
\* mapping it found
AppliedAlone ==
    IF loop_req.op = "create"
    THEN TablesOf(update_table_schema(pre_cache, loop_req.name, loop_req.columns, 0))
    ELSE {r \in TablesOf(pre_cache) : r.name # Lower(loop_req.name)}

\* C11: registry mutations are linearized: when a create or a delete has
\* returned, the in-memory mapping and the mapping loaded from the snapshot
\* file are one and the same serial result, the mapping the call found with
\* this call applied to it (or left out, when the call failed), every other
\* table as it was.
C11_MutationsLinearized ==
    (loop_pc = "done" /\ loop_req.op \in {"create", "delete"}) =>
        \E result \in {AppliedAlone} \cup
                      (IF loop_resp.status = 200 THEN {} ELSE {TablesOf(pre_cache)}) :
            /\ TablesOf(schema_cache) = result
            /\ TablesOf(LoadCache(cache_file)) = result

AddingExecuted(t) ==
    /\ q_pc[t] \in {"add_index", "add_store"}
    /\ ~q_loc[t].executed.none
    /\ q_loc[t].executed = q_loc[t].validated
    /\ q_loc[t].executed.text = q_loc[t].sql
    /\ Verdicts[q_loc[t].sql].ok

\* C13: the cache is populated only by a request whose whole pipeline
\* succeeded: every stored statement passes validate_sql; the index and the
\* store change only in a step of a request that has validated and run its
\* statement, the entry stored holding that statement and the rows of that
\* run; and a request that ends in an error does so in a step that changes
\* neither the index nor the store, never having entered the add.
C13_OnlySuccessfulRequestsStore ==
    /\ [](\A i \in 1..Len(sem_cache) : Verdicts[sem_cache[i].sql].ok)
    /\ [][\A t \in Threads :
            /\ (q_pc'[t] # q_pc[t] /\ (sem_index' # sem_index \/ sem_cache' # sem_cache)) =>
                    /\ AddingExecuted(t)
                    /\ sem_index' # sem_index => sem_cache' = sem_cache
                    /\ sem_cache' # sem_cache =>
                            /\ sem_index' = sem_index
                            /\ Len(sem_cache') = Len(sem_cache) + 1
                            /\ SubSeq(sem_cache', 1, Len(sem_cache)) = sem_cache
                            /\ sem_cache'[Len(sem_cache')].sql = q_loc[t].executed.text
                            /\ sem_cache'[Len(sem_cache')].result = q_loc[t].results
            /\ (q_pc[t] # "done" /\ q_pc'[t] = "done" /\ q_resp'[t].status # 200) =>
                    /\ q_pc[t] \notin {"add", "add_index", "add_store"}
                    /\ q_loc[t].executed.none
                    /\ sem_index' = sem_index
                    /\ sem_cache' = sem_cache]_vars

\* one request has stored its answer and another has failed after it (at the
\* model call, at validation or at execution), the cache holding the one
\* entry still
C13_Witness ==
    \E t \in Threads :
        /\ q_pc[t] = "done" /\ q_resp[t].status = 200 /\ ~q_resp[t].from_cache
        /\ q_pc[Other(t)] = "done" /\ q_resp[Other(t)].status = 500
        /\ Len(sem_cache) = 1 /\ Len(sem_index) = 1
        /\ sem_cache[1].sql = q_resp[t].sql
        /\ sem_cache[1].result = q_resp[t].results

\* thread t is at the cache look-up: it holds nothing of the model or of the
\* engine yet
BeforePipeline(t) ==
    /\ q_pc[t] \in {"search", "scan"}
    /\ q_loc[t].sql = <<>>
    /\ q_loc[t].explanation = NoText
    /\ q_loc[t].validated = NoText
    /\ q_loc[t].executed = NoText
    /\ q_loc[t].results = <<>>

\* C14: a request answered from the cache ends in the step of the look-up
\* itself, before the model is called and before the engine is invoked; the
\* answer is the statement and the rows of an entry of the store, and no step
\* of the request up to and including that one changes the index or the store.
C14_HitReturnsStoredAtOnce ==
    [][\A t \in Threads :
        /\ (q_pc[t] # "done" /\ q_pc'[t] = "done" /\ q_resp'[t].from_cache) =>
                /\ BeforePipeline(t)
                /\ q_resp'[t].status = 200
                /\ \E i \in 1..Len(sem_cache) :
                        /\ q_resp'[t].cached = <<sem_cache[i]>>
                        /\ q_resp'[t].sql = sem_cache[i].sql
                        /\ q_resp'[t].results = sem_cache[i].result
                /\ sem_index' = sem_index
                /\ sem_cache' = sem_cache
        /\ (q_pc'[t] # q_pc[t] /\ q_pc[t] \in {"idle", "exists", "search", "scan"}) =>
                /\ sem_index' = sem_index
                /\ sem_cache' = sem_cache
                /\ q_pc'[t] \notin {"generate", "validate", "execute",
                                    "add", "add_index", "add_store"}]_vars

\* a request has been answered from the cache with the statement and the rows
\* another request stored
C14_Witness ==
    \E t \in Threads :
        /\ q_pc[t] = "done"
        /\ q_resp[t].from_cache
        /\ q_resp[t].status = 200
        /\ Len(sem_cache) = 1
        /\ q_resp[t].sql = sem_cache[1].sql
        /\ q_resp[t].results = <<"row">>

\* a call of search by thread t has returned (a hit, None, or an error)
SearchReturned(t) ==
    /\ q_pc[t] = "done"
    /\ q_resp[t].from_cache \/ q_resp[t].status # 200

\* C15: a search with the question text and the mode of the entry added last,
\* at the threshold 0.87 and k of the defaults, returns that entry: not a
\* miss, and not an older entry.
C15_SearchReturnsJustAdded ==
    \A t \in Threads :
        (/\ SearchReturned(t)
         /\ ThresholdOf(t) = THRESHOLD /\ KOf(t) = K
         /\ Len(sem_cache) > 0
         /\ sem_cache[Len(sem_cache)].nl_query = q_req[t].question
         /\ sem_cache[Len(sem_cache)].explain_flag = q_req[t].explain)
        => /\ q_resp[t].from_cache
           /\ q_resp[t].cached = <<sem_cache[Len(sem_cache)]>>

\* C16: the store is append-only and its entries immutable: no step of an
\* add or of a search makes the store shorter, and entry i keeps its
\* question, mode, statement, rows and explanation in every step.
C16_EntriesAppendOnly ==
    [][/\ Len(sem_cache') >= Len(sem_cache)
       /\ \A i \in 1..Len(sem_cache) :
            /\ sem_cache'[i].nl_query = sem_cache[i].nl_query
            /\ sem_cache'[i].explain_flag = sem_cache[i].explain_flag
            /\ sem_cache'[i].sql = sem_cache[i].sql
            /\ sem_cache'[i].result = sem_cache[i].result
            /\ sem_cache'[i].explanation = sem_cache[i].explanation]_vars

\* two requests with the same question have both added, with different
\* statements, and the first entry is still in its place
C16_Witness ==
    /\ Len(sem_cache) = 2
    /\ sem_cache[1].nl_query = sem_cache[2].nl_query
    /\ sem_cache[1].explain_flag = sem_cache[2].explain_flag
    /\ sem_cache[1].sql # sem_cache[2].sql
    /\ \E t \in Threads :
        /\ q_pc[t] = "done" /\ q_resp[t].status = 200 /\ ~q_resp[t].from_cache
        /\ q_resp[t].sql = sem_cache[1].sql
        /\ q_pc[Other(t)] = "done" /\ q_resp[Other(t)].sql = sem_cache[2].sql

\* C17: whenever the handler is about to call infer_relationships on the
\* tables of its request, whatever the registry holds by then, the call
\* returns a list of edges and does not raise.
C17_InferrerNeverRaises ==
    \A t \in Threads :
        q_pc[t] = "infer" =>
            /\ ~infer_relationships(q_req[t].tables).raised
            /\ \A i \in 1..Len(infer_relationships(q_req[t].tables).rels) :
                    infer_relationships(q_req[t].tables).rels[i].src # <<>>

\* the statement candidate the handler passes to extract_sql_statement
Candidate ==
    IF pipe.explain THEN extract_explanation_and_sql(pipe.sql_raw)[2]
    ELSE Strip(pipe.sql_raw)

\* the extraction has run on the candidate
Extracted_done == pipe.pc \in {"sql", "verdict"}

\* C18: the extraction begins at the first line that starts with SELECT: a
\* statement extracted is either empty or begins with SELECT in some letter
\* case (whatever stood before is discarded), and it is empty when the
\* candidate holds no SELECT at all.
C18_ExtractionBeginsAtSelect ==
    Extracted_done =>
        /\ pipe.sql # <<>> => StartsWith(Upper(Strip(pipe.sql)), S_SELECT)
        /\ ~Contains(Upper(Candidate), S_SELECT) => pipe.sql = <<>>

\* C19: from a response wrapped in a code fence with a language tag, whose
\* statement begins with SELECT and has a terminator, the extraction gives
\* exactly the text from SELECT through the first terminator: the fence lines,
\* the line comments and everything after the terminator are gone, and a
\* statement of two lines keeps both.
C19_FencedStatementExtracted ==
    Extracted_done =>
        \A open \in FenceOpeners, middle \in StatementMiddles, rest \in Concats(1) :
            pipe.content = Fenced(open, middle, rest) =>
                pipe.sql = A_select \o RemoveComments(middle, FALSE) \o S_SEMI

\* C20: a candidate that begins with a SELECT line gives a non-empty
\* statement that ends with one terminator, and not with two: when the
\* candidate holds no terminator, one is appended.
C20_StatementEndsWithTerminator ==
    (Extracted_done /\ StartsWith(Upper(Candidate), S_SELECT)) =>
        /\ pipe.sql # <<>>
        /\ EndsWith(pipe.sql, S_SEMI)
        /\ ~EndsWith(pipe.sql, S_SEMI \o S_SEMI)

\* C21: from a response "Explanation:" E "SQL:" S, asked for with an
\* explanation, the explanation extracted is E trimmed and the statement
\* candidate is S trimmed, for every E that does not hold the marker "SQL:".
C21_BothMarkersSplit ==
    (Extracted_done /\ pipe.explain) =>
        \A E \in Explanations, S \in MarkedStatements :
            (pipe.content = Marked(E, S) /\ ~Contains(E, S_SQL_colon)) =>
                /\ pipe.explanation = Text(Strip(E))
                /\ Candidate = Strip(S)

\* C22: from a response without the marker "Explanation:", asked for with an
\* explanation, the explanation extracted is empty and the statement
\* candidate is the entire text, also when the text holds the words
\* explanation or sql in another letter case or without a colon.
C22_NoMarkerWholeText ==
    (Extracted_done /\ pipe.explain /\ ~Contains(pipe.sql_raw, S_Explanation_colon)) =>
        /\ pipe.explanation = Text(<<>>)
        /\ Candidate = Strip(pipe.sql_raw)

\* the three statements the description of validate_sql gives as examples
X_passes ==
    <<"S", "E", "L", "E", "C", "T", " ", "*", " ", "F", "R", "O", "M", " ", "o", "r", "d", "e", "r", "s">>
X_smuggles ==
    <<"S", "E", "L", "E", "C", "T", " ", "*", " ", "F", "R", "O", "M", " ", "o", "r", "d", "e", "r", "s", ";", " ", "D", "R", "O", "P", " ", "T", "A", "B", "L", "E", " ", "o", "r", "d", "e", "r", "s", ";">>
X_updates ==
    <<"U", "P", "D", "A", "T", "E", " ", "t", " ", "S", "E", "T", " ", "x", "=", "1">>

\* C23: the verdict of validate_sql on the statement extracted: not a read
\* query exactly when the trimmed, upper-cased text does not start with SELECT
\* (an empty text included); else blocked, naming a keyword of the list that
\* stands between spaces in the space-padded upper-cased text, exactly when
\* there is such a keyword; else accepted, the statement being left as it
\* was. The three examples get the verdicts accepted, blocked naming DROP,
\* and not a read query.
C23_ValidateVerdict ==
    /\ validate_sql(X_passes).ok
    /\ validate_sql(X_smuggles).error = "blocked" /\ validate_sql(X_smuggles).keyword = S_DROP
    /\ validate_sql(X_updates).error = "only_select"
    /\ pipe.pc = "verdict" =>
        LET upper == Upper(Strip(pipe.sql))
            padded == <<" ">> \o upper \o <<" ">>
            reads == StartsWith(upper, S_SELECT)
            blocked == {k \in 1..Len(BLOCKED_SQL_KEYWORDS) :
                            \E i \in 1..Len(padded) :
                                MatchAt(padded, <<" ">> \o BLOCKED_SQL_KEYWORDS[k] \o <<" ">>, i)}
        IN  /\ pipe.verdict.error = "only_select" <=> ~reads
            /\ pipe.sql = <<>> => pipe.verdict.error = "only_select"
            /\ pipe.verdict.error = "blocked" <=> (reads /\ blocked # {})
            /\ pipe.verdict.error = "blocked" =>
                    \E k \in blocked : pipe.verdict.keyword = BLOCKED_SQL_KEYWORDS[k]
            /\ pipe.verdict.ok <=> (reads /\ blocked = {})
            /\ pipe.verdict.ok <=> pipe.verdict.error = ""
            /\ pipe.sql = ExtractFromAnswer(pipe.sql_raw, pipe.explain)[2]

\* a statement that starts with SELECT and holds DROP between spaces has been
\* turned down, DROP being named
C23_Witness ==
    /\ pipe.pc = "verdict"
    /\ StartsWith(Upper(Strip(pipe.sql)), S_SELECT)
    /\ pipe.verdict.error = "blocked"
    /\ pipe.verdict.keyword = S_DROP
    /\ ~pipe.verdict.ok

\* candidate p of the search of thread t qualifies: its stored mode is the
\* requested one and its similarity 1/(1+d) is at least the threshold
Qualifies(t, p) ==
    LET idx == q_loc[t].cands[p]
        d == Distance(sem_index[idx], embed(cache_key(q_req[t].question, q_req[t].explain)))
    IN  /\ sem_cache[idx].explain_flag = q_req[t].explain
        /\ 100 * 100 >= ThresholdOf(t) * (100 + d)

\* the candidates thread t got from the index are the k nearest stored
\* vectors (all of them when fewer are stored), in ascending-distance order
KNearestAscending(t, cands) ==
    LET vec == embed(cache_key(q_req[t].question, q_req[t].explain))
        dist(i) == Distance(sem_index[i], vec)
    IN  /\ Len(cands) = (IF Len(sem_index) < KOf(t) THEN Len(sem_index) ELSE KOf(t))
        /\ \A p \in 1..Len(cands) : cands[p] \in 1..Len(sem_index)
        /\ \A p, r \in 1..Len(cands) : p < r =>
                cands[p] # cands[r] /\ dist(cands[p]) <= dist(cands[r])
        /\ \A i \in 1..Len(sem_index) :
                (\A p \in 1..Len(cands) : cands[p] # i) =>
                    \A p \in 1..Len(cands) : dist(cands[p]) <= dist(i)

\* C24: a search on an empty index is a miss; otherwise it examines the k
\* nearest stored vectors in ascending-distance order and returns the first
\* whose stored mode is the requested one and whose similarity 1/(1+d) is at
\* least the threshold (equal to it included); when none of them qualifies it
\* is a miss.
C24_SearchFirstQualifying ==
    [][\A t \in Threads :
        /\ (q_pc[t] = "search" /\ q_pc'[t] # "search") =>
                IF Len(sem_index) = 0 THEN q_pc'[t] = "schemas"
                ELSE q_pc'[t] = "scan" /\ KNearestAscending(t, q_loc'[t].cands)
        /\ (q_pc[t] = "scan" /\ q_pc'[t] # "scan") =>
                IF \E p \in 1..Len(q_loc[t].cands) : Qualifies(t, p)
                THEN \E p \in 1..Len(q_loc[t].cands) :
                        /\ Qualifies(t, p)
                        /\ \A r \in 1..(p - 1) : ~Qualifies(t, r)
                        /\ q_pc'[t] = "done"
                        /\ q_resp'[t].from_cache
                        /\ q_resp'[t].cached = <<sem_cache[q_loc[t].cands[p]]>>
                ELSE q_pc'[t] = "schemas"]_vars

\* a search with threshold 0.80 has returned an entry whose similarity to the
\* question is exactly 0.80, out of a store of two entries
C24_Witness ==
    \E t \in Threads :
        /\ q_pc[t] = "done"
        /\ q_resp[t].from_cache
        /\ ThresholdOf(t) = 80
        /\ Len(sem_cache) = 2
        /\ LET e == q_resp[t].cached[1]
           IN  Distance(embed(cache_key(e.nl_query, e.explain_flag)),
                        embed(cache_key(q_req[t].question, q_req[t].explain))) = 25

\* the triples (source table, column, destination table), by position in the
\* request and in the schema, for which an edge is due: the column ends in
\* "_id", the destination is another requested table whose schema has a
\* column named "id", and its name is the column without the suffix plus "s",
\* letter case apart
EdgesDue(tables) ==
    LET cols(i) == get_table_schema(tables[i]).columns
        all == UNION {{<<i, c, j>> : c \in 1..Len(cols(i)), j \in 1..Len(tables)} :
                        i \in 1..Len(tables)}
    IN  {q \in all :
            LET col == cols(q[1])[q[2]].name
            IN  /\ Len(col) >= 3
                /\ SubSeq(col, Len(col) - 2, Len(col)) = <<"_", "i", "d">>
                /\ tables[q[3]] # tables[q[1]]
                /\ \E x \in 1..Len(cols(q[3])) : cols(q[3])[x].name = <<"i", "d">>
                /\ Lower(tables[q[3]]) = Lower(SubSeq(col, 1, Len(col) - 3) \o <<"s">>)}

\* table order, then column order, then destination order
EdgeBefore(p, q) ==
    \/ p[1] < q[1]
    \/ p[1] = q[1] /\ p[2] < q[2]
    \/ p[1] = q[1] /\ p[2] = q[2] /\ p[3] < q[3]

\* C25: when the inferrer returns, its list holds one edge for every triple
\* for which an edge is due and nothing else, in table order and then column
\* order, an edge to a table named twice being listed twice.
C25_EdgesExactlyWhenDue ==
    [][\A t \in Threads :
        (q_pc[t] = "infer" /\ q_pc'[t] = "generate") =>
            LET tables == q_req[t].tables
                due == EdgesDue(tables)
                rels == q_loc'[t].rels
            IN  /\ Len(rels) = Cardinality(due)
                /\ \A q \in due :
                    rels[1 + Cardinality({p \in due : EdgeBefore(p, q)})] =
                        [src |-> tables[q[1]],
                         col |-> get_table_schema(tables[q[1]]).columns[q[2]].name,
                         dst |-> tables[q[3]]]]_vars

\* the inferrer has returned two edges for a request that names the
\* destination table twice, and none from the destination back
C25_Witness ==
    \E t \in Threads :
        /\ q_pc[t] = "generate"
        /\ q_req[t].tables = <<N_u, N_cs, N_Cs>>
        /\ q_loc[t].rels = << [src |-> N_u, col |-> C_c_id, dst |-> N_cs],
                              [src |-> N_u, col |-> C_c_id, dst |-> N_Cs] >>

\* the request of thread t takes a step
Moves(t) == q_pc'[t] # q_pc[t] \/ q_loc'[t] # q_loc[t]

\* the positions of query_table at and after the search of the cache
PastChecks == {"search", "scan", "schemas", "infer", "generate", "validate",
               "execute", "add", "add_index", "add_store"}

\* C26: a request that names no table is answered 400 as it arrives, and a
\* request whose existence check meets a table the registry does not hold is
\* answered 404 at that check, whatever the cache holds; both answers leave
\* the handler before the cache is searched, the model called or the engine
\* run, carry nothing from any of them and leave the cache as it was; the
\* search is entered only from the check of the last table, found present.
C26_RejectedBeforeSearch ==
    [][\A t \in Threads :
        /\ (q_pc[t] = "idle" /\ Moves(t) /\ q_req'[t].tables = <<>>) =>
                /\ q_pc'[t] = "done"
                /\ q_resp'[t] = [NoAnswer EXCEPT !.status = 400]
                /\ UNCHANGED <<cache_vars, pipe_vars>>
        /\ (q_pc[t] = "exists" /\ Moves(t)
                /\ ~table_exists(q_req[t].tables[q_loc[t].i])) =>
                /\ q_pc'[t] = "done"
                /\ q_resp'[t] = [NoAnswer EXCEPT !.status = 404]
                /\ UNCHANGED <<cache_vars, pipe_vars>>
        /\ (q_pc'[t] = "done" /\ q_pc[t] # "done" /\ q_resp'[t].status \in {400, 404}) =>
                q_pc[t] \in {"idle", "exists"}
        /\ (q_pc'[t] \in PastChecks /\ q_pc[t] \notin PastChecks) =>
                /\ q_pc[t] = "exists"
                /\ q_pc'[t] = "search"
                /\ q_loc[t].i = Len(q_req[t].tables)
                /\ table_exists(q_req[t].tables[q_loc[t].i])]_vars

\* a query is answered not-found for a table that has been dropped while the
\* cache holds an answer to the same question
C26_Witness ==
    \E t \in Threads :
        /\ q_pc[t] = "done"
        /\ q_resp[t].status = 404
        /\ q_req[t].tables = <<N_cs>>
        /\ ~table_exists(N_cs)
        /\ \E i \in 1..Len(sem_cache) :
                /\ sem_cache[i].nl_query = q_req[t].question
                /\ sem_cache[i].explain_flag = q_req[t].explain

\* C27: a request that has passed the existence check for all its tables
\* holds, when it goes on to the relationships, a schema for every one of
\* them (line 114), and the registry still holds a schema for every one of
\* them for the inferrer to read (line 72), also when a drop runs meanwhile.
C27_CheckedTablesKeepSchemas ==
    \A t \in Threads :
        q_pc[t] = "infer" =>
            \A i \in 1..Len(q_req[t].tables) :
                /\ q_loc[t].schemas[i] # None
                /\ get_table_schema(q_req[t].tables[i]) # None

\* the tables a request names, as the registry knows them
NamedTables(tables) == {Lower(tables[i]) : i \in 1..Len(tables)}

\* C28: when one request has just stored the only entry of the cache and is
\* answered from the pipeline, and another request is answered from the
\* cache, hence with that entry, the two requests name the same set of
\* tables.
C28_HitOnlyForSameTables ==
    \A t \in Threads :
        (/\ q_pc[t] = "done" /\ q_resp[t].status = 200 /\ ~q_resp[t].from_cache
         /\ Len(sem_cache) = 1 /\ sem_cache[1].sql = q_resp[t].sql
         /\ q_pc[Other(t)] = "done" /\ q_resp[Other(t)].from_cache
         /\ q_resp[Other(t)].cached = <<sem_cache[1]>>)
            => NamedTables(q_req[Other(t)].tables) = NamedTables(q_req[t].tables)

\* the event-loop operations that neither define nor drop a table
ReadingOps == {"insert", "get", "list"}

\* C29: while the service handles an insert of rows, a schema read or a
\* listing, and while a worker thread handles a query, no step changes the
\* registry (the columns and the creation timestamp of every entry) or the
\* persisted snapshot.
C29_OnlyDefineAndDropChangeEntries ==
    [][/\ (loop_req.op \in ReadingOps /\ loop_req' = loop_req) =>
                UNCHANGED <<schema_cache, cache_file>>
       /\ \A t \in Threads : Moves(t) => UNCHANGED <<schema_cache, cache_file>>]_vars

\* the registry held an entry for the canonical name when the create arrived
ExistedBefore == DictHas(pre_cache, Lower(loop_req.name))

\* a create rejected with "already exists" has changed neither the registry
\* nor the snapshot file
RejectedUnchanged ==
    /\ loop_resp.status = 400
    /\ loop_resp.body = "exists"
    /\ schema_cache = pre_cache
    /\ cache_file = pre_file

\* a create that succeeded answers with, and has stored, the columns defined
CreatedAsDefined ==
    /\ loop_resp.status = 200
    /\ loop_resp.body.columns = loop_req.columns
    /\ get_table_schema(loop_req.name).columns = loop_req.columns

\* C30 as stated: a create that has returned has succeeded exactly when the
\* registry had no entry for the lower-cased name; with an entry, under any
\* letter case, it is rejected with "already exists", entry and snapshot
\* unchanged; a successful create has stored the columns defined, and a
\* schema read returns the columns the registry holds.
C30_CreateSucceedsIffAbsent ==
    /\ Returned("create", loop_resp.status) =>
            /\ loop_resp.status = 200 <=> ~ExistedBefore
            /\ ExistedBefore => RejectedUnchanged
            /\ ~ExistedBefore => CreatedAsDefined
    /\ Returned("get", 200) => loop_resp.body = SchemaBody(loop_req.name)

\* C30, amended: the same, the success being promised only to a create whose
\* definition parses and whose engine and storage calls do not raise; a
\* create for an absent name otherwise ends in the 400 of the parser or the
\* 500 of the failed call.
C30_CreateByAbsence ==
    /\ Returned("create", loop_resp.status) =>
            /\ loop_resp.status = 200 => ~ExistedBefore
            /\ ExistedBefore => RejectedUnchanged
            /\ (~ExistedBefore /\ loop_req.columns = <<>>) =>
                    loop_resp.status = 400 /\ loop_resp.body = "invalid"
            /\ (~ExistedBefore /\ loop_req.columns # <<>>) =>
                    \/ CreatedAsDefined
                    \/ loop_resp.status = 500 /\ loop_resp.body \in {"engine", "storage"}
    /\ Returned("get", 200) => loop_resp.body = SchemaBody(loop_req.name)

\* a create has succeeded for the name of a table whose delete left the
\* registry and the snapshot empty, and has stored its new columns
C30_Witness ==
    /\ Returned("create", 200)
    /\ pre_cache = <<>>
    /\ pre_file = [kind |-> "text", text |-> Dump(<<>>)]
    /\ loop_req.columns = COLS_id_cid
    /\ CreatedAsDefined

============================================================================
